---- MODULE Spec2Model ----
(***************************************************************************)
(* Architecture Portfolio API (src/main.py): the `work` collection, the    *)
(* three resource routes (create, list, get by id), the health route, and  *)
(* the identifier / document serialization boundary between them.          *)
(*                                                                         *)
(* Values.  A JSON / BSON value is a tagged record: Null, JInt(n),         *)
(* JStr(s), JList(xs) and Oid(b).  Text is a sequence of one-character     *)
(* strings, so that length and character tests are computed; a character   *)
(* other than printable ASCII is a token of its code point: "U+00A0".      *)
(* A native identifier (bson.ObjectId) is its 12 bytes; its canonical      *)
(* string form is the 24 lower-case hexadecimal digits of those bytes.     *)
(* A document or                                                           *)
(* a JSON object is a function from field names to values; an absent       *)
(* field is a name outside its DOMAIN.                                     *)
(*                                                                         *)
(* database.py (db, create_document, get_documents) is not part of the     *)
(* sources at hand; the gateway is modelled from sections 4.1 and 7 of     *)
(* the specification.                                                      *)
(*                                                                         *)
(* Four specifications: Spec runs the API (requests interleave; a create   *)
(* is two steps, the insert and the re-fetch; the framework's pool of 40   *)
(* worker threads is never used up by the creates in flight, at most       *)
(* MaxDocs, so that a request can always be taken); SpecSerialize applies  *)
(* serialize_doc to sample documents; SpecHealth runs GET /test against    *)
(* every probe outcome; SpecList lists collections of up to MaxPreload     *)
(* documents.                                                              *)
(***************************************************************************)
EXTENDS Integers, Sequences, FiniteSets, TLC

VARIABLES
    db,        \* the module-level handle imported from database: "none" | "up"
    store,     \* the documents of collection "work", in insertion order
    inflight,  \* the create_work calls between their two store calls: their locals
    resp,      \* the last completed response (with the request it answers)
    created,   \* history: the successful create responses so far
    input      \* the argument a pure function is applied to (NoInput in the API runs)

vars == <<db, store, inflight, resp, created, input>>

----------------------------------------------------------------------------
(* Bounds of the model *)

MaxDocs == 2          \* documents the collection may hold in the API runs
MaxPreload == 102     \* largest collection the list runs start from
MaxColls == 12        \* largest number of collections the store reports

----------------------------------------------------------------------------
(* Values *)

Null == [t |-> "null"]
JInt(n) == [t |-> "int", v |-> n]
JStr(s) == [t |-> "str", v |-> s]
JList(xs) == [t |-> "list", v |-> xs]
Oid(b) == [t |-> "oid", v |-> b]

IsOid(x) == x.t = "oid"
IsStr(x) == x.t = "str"
IsList(x) == x.t = "list"

Range(s) == {s[i] : i \in 1..Len(s)}

HexDigits == <<"0", "1", "2", "3", "4", "5", "6", "7",
               "8", "9", "a", "b", "c", "d", "e", "f">>

UpperHex == <<"0", "1", "2", "3", "4", "5", "6", "7",
              "8", "9", "A", "B", "C", "D", "E", "F">>

HexChars == Range(HexDigits) \cup Range(UpperHex)

\* the value of one hexadecimal digit, either case
HexVal(c) ==
    IF c \in Range(HexDigits)
    THEN (CHOOSE i \in 1..16 : HexDigits[i] = c) - 1
    ELSE (CHOOSE i \in 1..16 : UpperHex[i] = c) - 1

\* a faulty rendering: the two digits of each byte swapped
OidStrBad(b) ==
    [i \in 1..(2 * Len(b)) |->
        IF i % 2 = 1 THEN HexDigits[(b[(i + 1) \div 2] % 16) + 1]
                     ELSE HexDigits[(b[(i + 1) \div 2] \div 16) + 1]]

\* str(ObjectId): two lower-case hex digits per byte
OidStr(b) ==
    [i \in 1..(2 * Len(b)) |->
        IF i % 2 = 1 THEN HexDigits[(b[(i + 1) \div 2] \div 16) + 1]
                     ELSE HexDigits[(b[(i + 1) \div 2] % 16) + 1]]

\* the vertical tab, character 11, for which a string has no escape
VTab == ""

\* ASCII whitespace, which bytes.fromhex skips between two bytes
Whitespace == {" ", "\t", "\n", VTab, "\f", "\r"}

HexFail == <<-1>>

\* bytes.fromhex(s) from position i on: whitespace is skipped before a byte,
\* then two hexadecimal digits must follow one another; HexFail for the
\* ValueError
RECURSIVE FromHex(_, _)
FromHex(s, i) ==
    IF i > Len(s) THEN <<>>
    ELSE IF s[i] \in Whitespace THEN FromHex(s, i + 1)
    ELSE IF s[i] \notin HexChars \/ i + 1 > Len(s) THEN HexFail
    ELSE IF s[i + 1] \notin HexChars THEN HexFail
    ELSE LET rest == FromHex(s, i + 2)
         IN IF rest = HexFail THEN HexFail
            ELSE <<16 * HexVal(s[i]) + HexVal(s[i + 1])>> \o rest

\* ObjectId.is_valid on a str: 24 characters that bytes.fromhex accepts (so
\* not only 24 hexadecimal digits: whitespace between the bytes passes, and
\* the identifier then has fewer than 12 bytes)
IsValid(s) ==
    /\ Len(s) = 24
    /\ FromHex(s, 1) # HexFail

\* ObjectId(s) for a valid s: bytes.fromhex
OidParse(s) == FromHex(s, 1)

\* the decimal digits of a natural number
RECURSIVE DecDigits(_)
DecDigits(n) ==
    IF n < 10 THEN <<HexDigits[n + 1]>>
    ELSE DecDigits(n \div 10) \o <<HexDigits[(n % 10) + 1]>>

\* Characters.  A printable ASCII character is written as itself; tab, line
\* feed, vertical tab, form feed and carriage return are the one-character
\* strings below; any other character is the token "U+" followed by the 4 to
\* 6 hexadecimal digits of its code point ("U+0002", "U+00A0", "U+E0001").
ControlCodes ==
    ("\t" :> 9) @@ ("\n" :> 10) @@ (VTab :> 11) @@ ("\f" :> 12) @@ ("\r" :> 13)

IsToken(c) ==
    /\ Len(c) \in 6..8
    /\ SubSeq(c, 1, 2) = "U+"
    /\ \A i \in 3..Len(c) : SubSeq(c, i, i) \in HexChars

\* the value of the first n hexadecimal digits of a token
RECURSIVE TokenValue(_, _)
TokenValue(c, n) ==
    IF n = 0 THEN 0
    ELSE 16 * TokenValue(c, n - 1) + HexVal(SubSeq(c, n + 2, n + 2))

NoCode == -1

\* the code point of a character written as a token or as a control
\* character; NoCode for a character written as itself
CodePoint(c) ==
    IF IsToken(c) THEN TokenValue(c, Len(c) - 2)
    ELSE IF c \in DOMAIN ControlCodes THEN ControlCodes[c]
    ELSE NoCode

\* the code points str.isprintable refuses, as ranges <<first, last>>
\* (Unicode 14.0: the categories Cc, Cf, Cs, Co, Cn, Zl, Zp, and Zs but for
\* the space)
NonPrintable ==
    {<<0, 31>>, <<127, 160>>, <<173, 173>>, <<888, 889>>, <<896, 899>>,
     <<907, 907>>, <<909, 909>>, <<930, 930>>, <<1328, 1328>>,
     <<1367, 1368>>, <<1419, 1420>>, <<1424, 1424>>, <<1480, 1487>>,
     <<1515, 1518>>, <<1525, 1541>>, <<1564, 1564>>, <<1757, 1757>>,
     <<1806, 1807>>, <<1867, 1868>>, <<1970, 1983>>, <<2043, 2044>>,
     <<2094, 2095>>, <<2111, 2111>>, <<2140, 2141>>, <<2143, 2143>>,
     <<2155, 2159>>, <<2191, 2199>>, <<2274, 2274>>, <<2436, 2436>>,
     <<2445, 2446>>, <<2449, 2450>>, <<2473, 2473>>, <<2481, 2481>>,
     <<2483, 2485>>, <<2490, 2491>>, <<2501, 2502>>, <<2505, 2506>>,
     <<2511, 2518>>, <<2520, 2523>>, <<2526, 2526>>, <<2532, 2533>>,
     <<2559, 2560>>, <<2564, 2564>>, <<2571, 2574>>, <<2577, 2578>>,
     <<2601, 2601>>, <<2609, 2609>>, <<2612, 2612>>, <<2615, 2615>>,
     <<2618, 2619>>, <<2621, 2621>>, <<2627, 2630>>, <<2633, 2634>>,
     <<2638, 2640>>, <<2642, 2648>>, <<2653, 2653>>, <<2655, 2661>>,
     <<2679, 2688>>, <<2692, 2692>>, <<2702, 2702>>, <<2706, 2706>>,
     <<2729, 2729>>, <<2737, 2737>>, <<2740, 2740>>, <<2746, 2747>>,
     <<2758, 2758>>, <<2762, 2762>>, <<2766, 2767>>, <<2769, 2783>>,
     <<2788, 2789>>, <<2802, 2808>>, <<2816, 2816>>, <<2820, 2820>>,
     <<2829, 2830>>, <<2833, 2834>>, <<2857, 2857>>, <<2865, 2865>>,
     <<2868, 2868>>, <<2874, 2875>>, <<2885, 2886>>, <<2889, 2890>>,
     <<2894, 2900>>, <<2904, 2907>>, <<2910, 2910>>, <<2916, 2917>>,
     <<2936, 2945>>, <<2948, 2948>>, <<2955, 2957>>, <<2961, 2961>>,
     <<2966, 2968>>, <<2971, 2971>>, <<2973, 2973>>, <<2976, 2978>>,
     <<2981, 2983>>, <<2987, 2989>>, <<3002, 3005>>, <<3011, 3013>>,
     <<3017, 3017>>, <<3022, 3023>>, <<3025, 3030>>, <<3032, 3045>>,
     <<3067, 3071>>, <<3085, 3085>>, <<3089, 3089>>, <<3113, 3113>>,
     <<3130, 3131>>, <<3141, 3141>>, <<3145, 3145>>, <<3150, 3156>>,
     <<3159, 3159>>, <<3163, 3164>>, <<3166, 3167>>, <<3172, 3173>>,
     <<3184, 3190>>, <<3213, 3213>>, <<3217, 3217>>, <<3241, 3241>>,
     <<3252, 3252>>, <<3258, 3259>>, <<3269, 3269>>, <<3273, 3273>>,
     <<3278, 3284>>, <<3287, 3292>>, <<3295, 3295>>, <<3300, 3301>>,
     <<3312, 3312>>, <<3315, 3327>>, <<3341, 3341>>, <<3345, 3345>>,
     <<3397, 3397>>, <<3401, 3401>>, <<3408, 3411>>, <<3428, 3429>>,
     <<3456, 3456>>, <<3460, 3460>>, <<3479, 3481>>, <<3506, 3506>>,
     <<3516, 3516>>, <<3518, 3519>>, <<3527, 3529>>, <<3531, 3534>>,
     <<3541, 3541>>, <<3543, 3543>>, <<3552, 3557>>, <<3568, 3569>>,
     <<3573, 3584>>, <<3643, 3646>>, <<3676, 3712>>, <<3715, 3715>>,
     <<3717, 3717>>, <<3723, 3723>>, <<3748, 3748>>, <<3750, 3750>>,
     <<3774, 3775>>, <<3781, 3781>>, <<3783, 3783>>, <<3790, 3791>>,
     <<3802, 3803>>, <<3808, 3839>>, <<3912, 3912>>, <<3949, 3952>>,
     <<3992, 3992>>, <<4029, 4029>>, <<4045, 4045>>, <<4059, 4095>>,
     <<4294, 4294>>, <<4296, 4300>>, <<4302, 4303>>, <<4681, 4681>>,
     <<4686, 4687>>, <<4695, 4695>>, <<4697, 4697>>, <<4702, 4703>>,
     <<4745, 4745>>, <<4750, 4751>>, <<4785, 4785>>, <<4790, 4791>>,
     <<4799, 4799>>, <<4801, 4801>>, <<4806, 4807>>, <<4823, 4823>>,
     <<4881, 4881>>, <<4886, 4887>>, <<4955, 4956>>, <<4989, 4991>>,
     <<5018, 5023>>, <<5110, 5111>>, <<5118, 5119>>, <<5760, 5760>>,
     <<5789, 5791>>, <<5881, 5887>>, <<5910, 5918>>, <<5943, 5951>>,
     <<5972, 5983>>, <<5997, 5997>>, <<6001, 6001>>, <<6004, 6015>>,
     <<6110, 6111>>, <<6122, 6127>>, <<6138, 6143>>, <<6158, 6158>>,
     <<6170, 6175>>, <<6265, 6271>>, <<6315, 6319>>, <<6390, 6399>>,
     <<6431, 6431>>, <<6444, 6447>>, <<6460, 6463>>, <<6465, 6467>>,
     <<6510, 6511>>, <<6517, 6527>>, <<6572, 6575>>, <<6602, 6607>>,
     <<6619, 6621>>, <<6684, 6685>>, <<6751, 6751>>, <<6781, 6782>>,
     <<6794, 6799>>, <<6810, 6815>>, <<6830, 6831>>, <<6863, 6911>>,
     <<6989, 6991>>, <<7039, 7039>>, <<7156, 7163>>, <<7224, 7226>>,
     <<7242, 7244>>, <<7305, 7311>>, <<7355, 7356>>, <<7368, 7375>>,
     <<7419, 7423>>, <<7958, 7959>>, <<7966, 7967>>, <<8006, 8007>>,
     <<8014, 8015>>, <<8024, 8024>>, <<8026, 8026>>, <<8028, 8028>>,
     <<8030, 8030>>, <<8062, 8063>>, <<8117, 8117>>, <<8133, 8133>>,
     <<8148, 8149>>, <<8156, 8156>>, <<8176, 8177>>, <<8181, 8181>>,
     <<8191, 8207>>, <<8232, 8239>>, <<8287, 8303>>, <<8306, 8307>>,
     <<8335, 8335>>, <<8349, 8351>>, <<8385, 8399>>, <<8433, 8447>>,
     <<8588, 8591>>, <<9255, 9279>>, <<9291, 9311>>, <<11124, 11125>>,
     <<11158, 11158>>, <<11508, 11512>>, <<11558, 11558>>, <<11560, 11564>>,
     <<11566, 11567>>, <<11624, 11630>>, <<11633, 11646>>, <<11671, 11679>>,
     <<11687, 11687>>, <<11695, 11695>>, <<11703, 11703>>, <<11711, 11711>>,
     <<11719, 11719>>, <<11727, 11727>>, <<11735, 11735>>, <<11743, 11743>>,
     <<11870, 11903>>, <<11930, 11930>>, <<12020, 12031>>, <<12246, 12271>>,
     <<12284, 12288>>, <<12352, 12352>>, <<12439, 12440>>, <<12544, 12548>>,
     <<12592, 12592>>, <<12687, 12687>>, <<12772, 12783>>, <<12831, 12831>>,
     <<42125, 42127>>, <<42183, 42191>>, <<42540, 42559>>, <<42744, 42751>>,
     <<42955, 42959>>, <<42962, 42962>>, <<42964, 42964>>, <<42970, 42993>>,
     <<43053, 43055>>, <<43066, 43071>>, <<43128, 43135>>, <<43206, 43213>>,
     <<43226, 43231>>, <<43348, 43358>>, <<43389, 43391>>, <<43470, 43470>>,
     <<43482, 43485>>, <<43519, 43519>>, <<43575, 43583>>, <<43598, 43599>>,
     <<43610, 43611>>, <<43715, 43738>>, <<43767, 43776>>, <<43783, 43784>>,
     <<43791, 43792>>, <<43799, 43807>>, <<43815, 43815>>, <<43823, 43823>>,
     <<43884, 43887>>, <<44014, 44015>>, <<44026, 44031>>, <<55204, 55215>>,
     <<55239, 55242>>, <<55292, 63743>>, <<64110, 64111>>, <<64218, 64255>>,
     <<64263, 64274>>, <<64280, 64284>>, <<64311, 64311>>, <<64317, 64317>>,
     <<64319, 64319>>, <<64322, 64322>>, <<64325, 64325>>, <<64451, 64466>>,
     <<64912, 64913>>, <<64968, 64974>>, <<64976, 65007>>, <<65050, 65055>>,
     <<65107, 65107>>, <<65127, 65127>>, <<65132, 65135>>, <<65141, 65141>>,
     <<65277, 65280>>, <<65471, 65473>>, <<65480, 65481>>, <<65488, 65489>>,
     <<65496, 65497>>, <<65501, 65503>>, <<65511, 65511>>, <<65519, 65531>>,
     <<65534, 65535>>, <<65548, 65548>>, <<65575, 65575>>, <<65595, 65595>>,
     <<65598, 65598>>, <<65614, 65615>>, <<65630, 65663>>, <<65787, 65791>>,
     <<65795, 65798>>, <<65844, 65846>>, <<65935, 65935>>, <<65949, 65951>>,
     <<65953, 65999>>, <<66046, 66175>>, <<66205, 66207>>, <<66257, 66271>>,
     <<66300, 66303>>, <<66340, 66348>>, <<66379, 66383>>, <<66427, 66431>>,
     <<66462, 66462>>, <<66500, 66503>>, <<66518, 66559>>, <<66718, 66719>>,
     <<66730, 66735>>, <<66772, 66775>>, <<66812, 66815>>, <<66856, 66863>>,
     <<66916, 66926>>, <<66939, 66939>>, <<66955, 66955>>, <<66963, 66963>>,
     <<66966, 66966>>, <<66978, 66978>>, <<66994, 66994>>, <<67002, 67002>>,
     <<67005, 67071>>, <<67383, 67391>>, <<67414, 67423>>, <<67432, 67455>>,
     <<67462, 67462>>, <<67505, 67505>>, <<67515, 67583>>, <<67590, 67591>>,
     <<67593, 67593>>, <<67638, 67638>>, <<67641, 67643>>, <<67645, 67646>>,
     <<67670, 67670>>, <<67743, 67750>>, <<67760, 67807>>, <<67827, 67827>>,
     <<67830, 67834>>, <<67868, 67870>>, <<67898, 67902>>, <<67904, 67967>>,
     <<68024, 68027>>, <<68048, 68049>>, <<68100, 68100>>, <<68103, 68107>>,
     <<68116, 68116>>, <<68120, 68120>>, <<68150, 68151>>, <<68155, 68158>>,
     <<68169, 68175>>, <<68185, 68191>>, <<68256, 68287>>, <<68327, 68330>>,
     <<68343, 68351>>, <<68406, 68408>>, <<68438, 68439>>, <<68467, 68471>>,
     <<68498, 68504>>, <<68509, 68520>>, <<68528, 68607>>, <<68681, 68735>>,
     <<68787, 68799>>, <<68851, 68857>>, <<68904, 68911>>, <<68922, 69215>>,
     <<69247, 69247>>, <<69290, 69290>>, <<69294, 69295>>, <<69298, 69375>>,
     <<69416, 69423>>, <<69466, 69487>>, <<69514, 69551>>, <<69580, 69599>>,
     <<69623, 69631>>, <<69710, 69713>>, <<69750, 69758>>, <<69821, 69821>>,
     <<69827, 69839>>, <<69865, 69871>>, <<69882, 69887>>, <<69941, 69941>>,
     <<69960, 69967>>, <<70007, 70015>>, <<70112, 70112>>, <<70133, 70143>>,
     <<70162, 70162>>, <<70207, 70271>>, <<70279, 70279>>, <<70281, 70281>>,
     <<70286, 70286>>, <<70302, 70302>>, <<70314, 70319>>, <<70379, 70383>>,
     <<70394, 70399>>, <<70404, 70404>>, <<70413, 70414>>, <<70417, 70418>>,
     <<70441, 70441>>, <<70449, 70449>>, <<70452, 70452>>, <<70458, 70458>>,
     <<70469, 70470>>, <<70473, 70474>>, <<70478, 70479>>, <<70481, 70486>>,
     <<70488, 70492>>, <<70500, 70501>>, <<70509, 70511>>, <<70517, 70655>>,
     <<70748, 70748>>, <<70754, 70783>>, <<70856, 70863>>, <<70874, 71039>>,
     <<71094, 71095>>, <<71134, 71167>>, <<71237, 71247>>, <<71258, 71263>>,
     <<71277, 71295>>, <<71354, 71359>>, <<71370, 71423>>, <<71451, 71452>>,
     <<71468, 71471>>, <<71495, 71679>>, <<71740, 71839>>, <<71923, 71934>>,
     <<71943, 71944>>, <<71946, 71947>>, <<71956, 71956>>, <<71959, 71959>>,
     <<71990, 71990>>, <<71993, 71994>>, <<72007, 72015>>, <<72026, 72095>>,
     <<72104, 72105>>, <<72152, 72153>>, <<72165, 72191>>, <<72264, 72271>>,
     <<72355, 72367>>, <<72441, 72703>>, <<72713, 72713>>, <<72759, 72759>>,
     <<72774, 72783>>, <<72813, 72815>>, <<72848, 72849>>, <<72872, 72872>>,
     <<72887, 72959>>, <<72967, 72967>>, <<72970, 72970>>, <<73015, 73017>>,
     <<73019, 73019>>, <<73022, 73022>>, <<73032, 73039>>, <<73050, 73055>>,
     <<73062, 73062>>, <<73065, 73065>>, <<73103, 73103>>, <<73106, 73106>>,
     <<73113, 73119>>, <<73130, 73439>>, <<73465, 73647>>, <<73649, 73663>>,
     <<73714, 73726>>, <<74650, 74751>>, <<74863, 74863>>, <<74869, 74879>>,
     <<75076, 77711>>, <<77811, 77823>>, <<78895, 82943>>, <<83527, 92159>>,
     <<92729, 92735>>, <<92767, 92767>>, <<92778, 92781>>, <<92863, 92863>>,
     <<92874, 92879>>, <<92910, 92911>>, <<92918, 92927>>, <<92998, 93007>>,
     <<93018, 93018>>, <<93026, 93026>>, <<93048, 93052>>, <<93072, 93759>>,
     <<93851, 93951>>, <<94027, 94030>>, <<94088, 94094>>, <<94112, 94175>>,
     <<94181, 94191>>, <<94194, 94207>>, <<100344, 100351>>,
     <<101590, 101631>>, <<101641, 110575>>, <<110580, 110580>>,
     <<110588, 110588>>, <<110591, 110591>>, <<110883, 110927>>,
     <<110931, 110947>>, <<110952, 110959>>, <<111356, 113663>>,
     <<113771, 113775>>, <<113789, 113791>>, <<113801, 113807>>,
     <<113818, 113819>>, <<113824, 118527>>, <<118574, 118575>>,
     <<118599, 118607>>, <<118724, 118783>>, <<119030, 119039>>,
     <<119079, 119080>>, <<119155, 119162>>, <<119275, 119295>>,
     <<119366, 119519>>, <<119540, 119551>>, <<119639, 119647>>,
     <<119673, 119807>>, <<119893, 119893>>, <<119965, 119965>>,
     <<119968, 119969>>, <<119971, 119972>>, <<119975, 119976>>,
     <<119981, 119981>>, <<119994, 119994>>, <<119996, 119996>>,
     <<120004, 120004>>, <<120070, 120070>>, <<120075, 120076>>,
     <<120085, 120085>>, <<120093, 120093>>, <<120122, 120122>>,
     <<120127, 120127>>, <<120133, 120133>>, <<120135, 120137>>,
     <<120145, 120145>>, <<120486, 120487>>, <<120780, 120781>>,
     <<121484, 121498>>, <<121504, 121504>>, <<121520, 122623>>,
     <<122655, 122879>>, <<122887, 122887>>, <<122905, 122906>>,
     <<122914, 122914>>, <<122917, 122917>>, <<122923, 123135>>,
     <<123181, 123183>>, <<123198, 123199>>, <<123210, 123213>>,
     <<123216, 123535>>, <<123567, 123583>>, <<123642, 123646>>,
     <<123648, 124895>>, <<124903, 124903>>, <<124908, 124908>>,
     <<124911, 124911>>, <<124927, 124927>>, <<125125, 125126>>,
     <<125143, 125183>>, <<125260, 125263>>, <<125274, 125277>>,
     <<125280, 126064>>, <<126133, 126208>>, <<126270, 126463>>,
     <<126468, 126468>>, <<126496, 126496>>, <<126499, 126499>>,
     <<126501, 126502>>, <<126504, 126504>>, <<126515, 126515>>,
     <<126520, 126520>>, <<126522, 126522>>, <<126524, 126529>>,
     <<126531, 126534>>, <<126536, 126536>>, <<126538, 126538>>,
     <<126540, 126540>>, <<126544, 126544>>, <<126547, 126547>>,
     <<126549, 126550>>, <<126552, 126552>>, <<126554, 126554>>,
     <<126556, 126556>>, <<126558, 126558>>, <<126560, 126560>>,
     <<126563, 126563>>, <<126565, 126566>>, <<126571, 126571>>,
     <<126579, 126579>>, <<126584, 126584>>, <<126589, 126589>>,
     <<126591, 126591>>, <<126602, 126602>>, <<126620, 126624>>,
     <<126628, 126628>>, <<126634, 126634>>, <<126652, 126703>>,
     <<126706, 126975>>, <<127020, 127023>>, <<127124, 127135>>,
     <<127151, 127152>>, <<127168, 127168>>, <<127184, 127184>>,
     <<127222, 127231>>, <<127406, 127461>>, <<127491, 127503>>,
     <<127548, 127551>>, <<127561, 127567>>, <<127570, 127583>>,
     <<127590, 127743>>, <<128728, 128732>>, <<128749, 128751>>,
     <<128765, 128767>>, <<128884, 128895>>, <<128985, 128991>>,
     <<129004, 129007>>, <<129009, 129023>>, <<129036, 129039>>,
     <<129096, 129103>>, <<129114, 129119>>, <<129160, 129167>>,
     <<129198, 129199>>, <<129202, 129279>>, <<129620, 129631>>,
     <<129646, 129647>>, <<129653, 129655>>, <<129661, 129663>>,
     <<129671, 129679>>, <<129709, 129711>>, <<129723, 129727>>,
     <<129734, 129743>>, <<129754, 129759>>, <<129768, 129775>>,
     <<129783, 129791>>, <<129939, 129939>>, <<129995, 130031>>,
     <<130042, 131071>>, <<173792, 173823>>, <<177977, 177983>>,
     <<178206, 178207>>, <<183970, 183983>>, <<191457, 194559>>,
     <<195102, 196607>>, <<201547, 917759>>, <<918000, 1114111>>}

\* str.isprintable of one character
IsPrintable(c) ==
    LET n == CodePoint(c)
    IN n = NoCode \/ \A r \in NonPrintable : n < r[1] \/ n > r[2]

\* n as k lower-case hexadecimal digits
RECURSIVE HexOf(_, _)
HexOf(n, k) ==
    IF k = 0 THEN <<>> ELSE HexOf(n \div 16, k - 1) \o <<HexDigits[(n % 16) + 1]>>

\* repr of a text: in double quotes when it holds an apostrophe and no double
\* quote, in apostrophes otherwise; the backslash and the chosen quote take a
\* backslash, a character that is not printable is written as an escape
\* (\xNN, \uNNNN or \UNNNNNNNN by the size of its code point)
ReprQuote(s) ==
    IF (\E i \in 1..Len(s) : s[i] = "'") /\ ~(\E i \in 1..Len(s) : s[i] = "\"")
    THEN "\"" ELSE "'"

ReprChar(c, q) ==
    LET n == CodePoint(c)
    IN IF c = "\\" THEN <<"\\", "\\">>
       ELSE IF c = q THEN <<"\\", q>>
       ELSE IF n = 10 THEN <<"\\", "n">>
       ELSE IF n = 9 THEN <<"\\", "t">>
       ELSE IF n = 13 THEN <<"\\", "r">>
       ELSE IF IsPrintable(c) THEN <<c>>
       ELSE IF n < 256 THEN <<"\\", "x">> \o HexOf(n, 2)
       ELSE IF n < 65536 THEN <<"\\", "u">> \o HexOf(n, 4)
       ELSE <<"\\", "U">> \o HexOf(n, 8)

RECURSIVE ReprChars(_, _, _)
ReprChars(s, i, q) ==
    IF i > Len(s) THEN <<>> ELSE ReprChar(s[i], q) \o ReprChars(s, i + 1, q)

ReprText(s) == <<ReprQuote(s)>> \o ReprChars(s, 1, ReprQuote(s)) \o <<ReprQuote(s)>>

\* repr(x): what str() of a list shows of its elements
RECURSIVE PyRepr(_)
RECURSIVE JoinRepr(_, _)
JoinRepr(xs, i) ==
    IF i > Len(xs) THEN <<>>
    ELSE (IF i > 1 THEN <<",", " ">> ELSE <<>>) \o PyRepr(xs[i]) \o JoinRepr(xs, i + 1)

PyRepr(x) ==
    IF x.t = "oid"
    THEN <<"O", "b", "j", "e", "c", "t", "I", "d", "(", "'">> \o OidStr(x.v) \o <<"'", ")">>
    ELSE IF x.t = "str" THEN ReprText(x.v)
    ELSE IF x.t = "int"
    THEN (IF x.v < 0 THEN <<"-">> \o DecDigits(0 - x.v) ELSE DecDigits(x.v))
    ELSE IF x.t = "list" THEN <<"[">> \o JoinRepr(x.v, 1) \o <<"]">>
    ELSE <<"N", "o", "n", "e">>

\* str(x) as serialize_doc uses it on an _id: the hexadecimal digits of an
\* ObjectId, a text itself, the decimal digits of an integer, the bracketed
\* reprs of a list's elements
PyStr(x) ==
    IF IsOid(x) THEN OidStr(x.v)
    ELSE IF IsStr(x) THEN x.v
    ELSE PyRepr(x)

----------------------------------------------------------------------------
(* Schemas: WorkBase / WorkCreate / WorkOut *)

WorkFields == {"title", "description", "year", "location", "cover_image", "gallery"}

MinYear == 1900
MaxYear == 2100

\* a stricter rule the schema does not state: the title non-empty
TitleOkNonEmpty(p) == "title" \in DOMAIN p /\ IsStr(p["title"]) /\ p["title"].v # <<>>

\* title: str = Field(...): present and a str (any str, the empty one included)
TitleOk(p) == "title" \in DOMAIN p /\ IsStr(p["title"])

\* Optional[str] = None
OptStrOk(p, f) == f \notin DOMAIN p \/ p[f] = Null \/ IsStr(p[f])

\* the schema is not strict: an int field takes an integer, or a text that
\* spells one, which it converts. The text is trimmed of Unicode whitespace
\* and read as an optional minus and decimal digits; when that fails it is
\* cleaned (a leading plus, leading zeros, a fraction of zeros and single
\* underscores between digits are taken away) and read again.
Digits == {HexDigits[i] : i \in 1..10}

\* the characters with the Unicode property White_Space
UnicodeSpace ==
    Whitespace \cup
    {"U+0085", "U+00A0", "U+1680", "U+2000", "U+2001", "U+2002", "U+2003",
     "U+2004", "U+2005", "U+2006", "U+2007", "U+2008", "U+2009", "U+200A",
     "U+2028", "U+2029", "U+202F", "U+205F", "U+3000"}

NumFail == <<"NaN">>

RECURSIVE TrimLeft(_)
TrimLeft(s) == IF s # <<>> /\ s[1] \in UnicodeSpace THEN TrimLeft(Tail(s)) ELSE s

RECURSIVE TrimRight(_)
TrimRight(s) ==
    IF s # <<>> /\ s[Len(s)] \in UnicodeSpace
    THEN TrimRight(SubSeq(s, 1, Len(s) - 1)) ELSE s

Trim(s) == TrimRight(TrimLeft(s))

StartsWith(s, cs) == s # <<>> /\ s[1] \in cs

\* a leading plus is taken away, unless a minus follows it
StripPlus(s) ==
    IF ~StartsWith(s, {"+"}) THEN s
    ELSE IF StartsWith(Tail(s), {"-"}) THEN NumFail
    ELSE Tail(s)

\* a leading minus is set aside, unless another sign follows it
StripMinus(s) ==
    IF ~StartsWith(s, {"-"}) THEN s
    ELSE IF StartsWith(Tail(s), {"-", "+"}) THEN NumFail
    ELSE Tail(s)

\* after a leading zero: further zeros and underscores are passed over, up to
\* a digit that is not zero or a minus, or a dot (which keeps the zero
\* before it)
RECURSIVE ZerosFrom(_, _)
ZerosFrom(s, i) ==
    IF i > Len(s) THEN SubSeq(s, Len(s), Len(s))
    ELSE IF s[i] \in {"0", "_"} THEN ZerosFrom(s, i + 1)
    ELSE IF s[i] \in Digits \cup {"-"} THEN SubSeq(s, i, Len(s))
    ELSE IF s[i] = "." THEN SubSeq(s, i - 1, Len(s))
    ELSE NumFail

StripLeadingZeros(s) ==
    IF s = <<>> THEN NumFail
    ELSE IF s[1] = "0" THEN ZerosFrom(s, 2)
    ELSE IF s[1] \in Digits THEN s
    ELSE NumFail

\* a dot followed by zeros, at least one, and by nothing else
StripDecimalZeros(s) ==
    IF \E i \in 1..Len(s) : s[i] = "."
    THEN LET d == CHOOSE i \in 1..Len(s) : s[i] = "." /\ \A j \in 1..(i - 1) : s[j] # "."
         IN IF d < Len(s) /\ \A j \in (d + 1)..Len(s) : s[j] = "0"
            THEN SubSeq(s, 1, d - 1) ELSE s
    ELSE s

HasUnderscores(s) ==
    /\ \E i \in 1..Len(s) : s[i] = "_"
    /\ s[1] # "_" /\ s[Len(s)] # "_"
    /\ \A i \in 1..(Len(s) - 1) : ~(s[i] = "_" /\ s[i + 1] = "_")

StripUnderscores(s) == SelectSeq(s, LAMBDA c : c # "_")

CleanIntStr(s) ==
    LET a == StripPlus(s)
        m == IF a = NumFail THEN NumFail ELSE StripMinus(a)
        sign == IF a # NumFail /\ StartsWith(a, {"-"}) THEN <<"-">> ELSE <<>>
        z == IF m = NumFail THEN NumFail ELSE StripLeadingZeros(m)
    IN IF z = NumFail THEN NumFail
       ELSE LET c == StripDecimalZeros(z)
            IN IF HasUnderscores(c) THEN sign \o StripUnderscores(c)
               ELSE IF Len(c) = Len(s) THEN NumFail
               ELSE sign \o c

\* the reading of a text as an integer: an optional minus, then a single
\* zero or digits that do not begin with zero (no plus, no leading zeros:
\* those are for the cleaning to take away)
IsIntText(s) ==
    LET d == IF StartsWith(s, {"-"}) THEN Tail(s) ELSE s
    IN /\ Len(d) >= 1
       /\ \A i \in 1..Len(d) : d[i] \in Digits
       /\ Len(d) > 1 => d[1] # "0"

RECURSIVE DigitsValue(_, _)
DigitsValue(s, n) ==
    IF n = 0 THEN 0
    ELSE IF s[n] = "-" THEN 0
    ELSE 10 * DigitsValue(s, n - 1) + HexVal(s[n])

IntTextValue(s) ==
    IF s[1] = "-" THEN 0 - DigitsValue(s, Len(s)) ELSE DigitsValue(s, Len(s))

IsNumeral(s) ==
    \/ IsIntText(Trim(s))
    \/ CleanIntStr(Trim(s)) # NumFail /\ IsIntText(CleanIntStr(Trim(s)))

NumeralValue(s) ==
    IF IsIntText(Trim(s)) THEN IntTextValue(Trim(s))
    ELSE IntTextValue(CleanIntStr(Trim(s)))

IsIntLike(x) == x.t = "int" \/ (x.t = "str" /\ IsNumeral(x.v))

IntOf(x) == IF x.t = "int" THEN x.v ELSE NumeralValue(x.v)

\* a faulty range: gt / lt in place of ge / le
YearOkOpen(p) ==
    \/ "year" \notin DOMAIN p
    \/ p["year"] = Null
    \/ IsIntLike(p["year"]) /\ IntOf(p["year"]) > MinYear /\ IntOf(p["year"]) < MaxYear

\* year: Optional[int] = Field(None, ge=1900, le=2100)
YearOk(p) ==
    \/ "year" \notin DOMAIN p
    \/ p["year"] = Null
    \/ IsIntLike(p["year"]) /\ IntOf(p["year"]) >= MinYear /\ IntOf(p["year"]) <= MaxYear

\* gallery: Optional[List[str]] = Field(default_factory=list)
GalleryOk(p) ==
    \/ "gallery" \notin DOMAIN p
    \/ p["gallery"] = Null
    \/ IsList(p["gallery"]) /\ \A i \in 1..Len(p["gallery"].v) : IsStr(p["gallery"].v[i])

\* the validation of a WorkBase: every field rule; fields the model does not
\* declare are ignored
WorkBaseOk(p) ==
    /\ TitleOk(p)
    /\ OptStrOk(p, "description")
    /\ YearOk(p)
    /\ OptStrOk(p, "location")
    /\ OptStrOk(p, "cover_image")
    /\ GalleryOk(p)

\* a faulty default: None for the gallery too
FieldDefaultNone(f) == Null

FieldDefault(f) == IF f = "gallery" THEN JList(<<>>) ELSE Null

\* the value a validated model holds for a given field: the year converted
\* to an integer, every other value as given
FieldValue(p, f) ==
    IF f = "year" /\ p[f] # Null THEN JInt(IntOf(p[f])) ELSE p[f]

\* a dump that keeps the fields the schema does not declare (extra = allow)
model_dump_echo_extra(p) ==
    [f \in WorkFields \cup DOMAIN p |->
        IF f \in DOMAIN p THEN FieldValue(p, f) ELSE FieldDefault(f)]

\* payload.model_dump(): the declared fields only, as validated, defaults
\* filled in
model_dump(p) ==
    [f \in WorkFields |-> IF f \in DOMAIN p THEN FieldValue(p, f) ELSE FieldDefault(f)]

\* WorkOut adds id: str
WorkOutOk(d) == WorkBaseOk(d) /\ "id" \in DOMAIN d /\ IsStr(d["id"])

WorkOutDump(d) ==
    [f \in WorkFields \cup {"id"} |->
        IF f \in DOMAIN d THEN FieldValue(d, f) ELSE FieldDefault(f)]

----------------------------------------------------------------------------
(* serialize_doc *)

\* a faulty second pass: lists are not looked into
SerializeValueTopOnly(x) ==
    IF IsOid(x) THEN JStr(OidStr(x.v)) ELSE x

\* one value of the second pass: an ObjectId becomes its string, a list is
\* converted element-wise, anything else is kept
SerializeValue(x) ==
    IF IsOid(x) THEN JStr(OidStr(x.v))
    ELSE IF IsList(x)
         THEN JList([i \in 1..Len(x.v) |->
                       IF IsOid(x.v[i]) THEN JStr(OidStr(x.v[i].v)) ELSE x.v[i]])
         ELSE x

\* d.pop("_id") into d["id"] when _id is present and not None
PopId(doc) ==
    IF "_id" \in DOMAIN doc /\ doc["_id"] # Null
    THEN [k \in (DOMAIN doc \ {"_id"}) \cup {"id"} |->
            IF k = "id" THEN JStr(PyStr(doc["_id"])) ELSE doc[k]]
    ELSE doc

serialize_doc(doc) ==
    IF doc = Null \/ DOMAIN doc = {}
    THEN doc
    ELSE LET d == PopId(doc)
         IN [k \in DOMAIN d |-> SerializeValue(d[k])]

----------------------------------------------------------------------------
(* The store: collection "work" *)

IdsOf(docs) == {docs[i]["_id"] : i \in 1..Len(docs)}

\* insert_one: the document gets the identifier the store chose
InsertOne(docs, fields, b) ==
    IF "_id" \in DOMAIN fields
    THEN Append(docs, fields)
    ELSE Append(docs, ("_id" :> Oid(b)) @@ fields)

\* database.create_document(collection, data): one insert; the new identifier
\* is returned in its string form
create_document(docs, data, b) ==
    LET after == InsertOne(docs, data, b)
    IN [docs |-> after, id |-> PyStr(after[Len(after)]["_id"])]

\* a faulty lookup: the filter ignored
find_one_any(docs, oid) ==
    IF docs = <<>> THEN Null ELSE docs[1]

\* find_one({"_id": oid}): the first document with that _id, or None
find_one(docs, oid) ==
    IF \E i \in 1..Len(docs) : docs[i]["_id"] = oid
    THEN docs[CHOOSE i \in 1..Len(docs) :
                /\ docs[i]["_id"] = oid
                /\ \A j \in 1..(i - 1) : docs[j]["_id"] # oid]
    ELSE Null

\* database.get_documents(collection, {}, limit): the documents in the store's
\* natural order, capped at a positive limit.  What a cap of 0 or below
\* yields is not stated, and get_documents gives the outcomes a gateway may
\* produce: nothing (the cap read literally), everything (a store's cursor
\* reads a limit of 0 as "no limit"), the first |limit| (a cursor's negative
\* limit), or all but the last |limit| (a slice).
Min(a, b) == IF a < b THEN a ELSE b
Max(a, b) == IF a > b THEN a ELSE b

get_documents(docs, limit) ==
    IF limit >= 1
    THEN {SubSeq(docs, 1, Min(limit, Len(docs)))}
    ELSE {SubSeq(docs, 1, n) :
            n \in {0, Min(0 - limit, Len(docs)), Max(Len(docs) + limit, 0), Len(docs)}}

----------------------------------------------------------------------------
(* Routes *)

DefaultLimit == 100
MaxCollections == 10
MaxErrorText == 50

Absent == [t |-> "absent"]

\* response_model=WorkOut: the returned dict is validated and dumped as a
\* WorkOut; a value that is no WorkOut is a server error
WorkOutResponse(d, calls) ==
    IF d # Null /\ WorkOutOk(d)
    THEN [status |-> 200, body |-> WorkOutDump(d), calls |-> calls]
    ELSE [status |-> 500, body |-> Null, calls |-> calls]

\* get_work(work_id)
get_work(dbv, docs, work_id) ==
    IF dbv = "none"
    THEN [status |-> 500, body |-> Null, calls |-> <<>>]
    ELSE IF ~IsValid(work_id)
    THEN [status |-> 400, body |-> Null, calls |-> <<>>]
    ELSE LET doc == find_one(docs, Oid(OidParse(work_id)))
         IN IF doc = Null \/ DOMAIN doc = {}
            THEN [status |-> 404, body |-> Null, calls |-> <<"find_one">>]
            ELSE WorkOutResponse(serialize_doc(doc), <<"find_one">>)

\* a faulty limit: one too many
ListLimitOffByOne(q) == IF q = Absent THEN DefaultLimit + 1 ELSE q.v + 1

\* limit: Optional[int] = 100
ListLimit(q) == IF q = Absent THEN DefaultLimit ELSE q.v

\* list_works(limit), for the documents get_documents returned
list_works_response(docs) ==
    LET out == [i \in 1..Len(docs) |-> serialize_doc(docs[i])]
    IN IF \A i \in 1..Len(out) : WorkOutOk(out[i])
       THEN [status |-> 200,
             body |-> JList([i \in 1..Len(out) |-> WorkOutDump(out[i])]),
             calls |-> <<"find">>]
       ELSE [status |-> 500, body |-> Null, calls |-> <<"find">>]

----------------------------------------------------------------------------
(* GET /test *)

Take(s, n) == SubSeq(s, 1, Min(n, Len(s)))

UnknownName == <<"U", "n", "k", "n", "o", "w", "n">>

HealthInitial ==
    [backend |-> "Running",
     database |-> [text |-> "Not Available", detail |-> <<>>],
     database_url |-> "None",
     database_name |-> <<>>,
     connection_status |-> "Not Connected",
     collections |-> <<>>]

\* What a probe step raises is a record: kind is "Exception", "AttributeError"
\* (an Exception that getattr with a default swallows) or "BaseException"
\* (which except Exception does not catch); printable tells whether str(e)
\* answers; msg is the text of str(e), or, for an exception that is not
\* printable, the text of the Exception its __str__ raises.
NoError == [kind |-> "none", printable |-> TRUE, msg |-> <<>>]

Caught(e) == e.kind \in {"Exception", "AttributeError"}

\* the Exception that str(e) raises for an e that is not printable
StrError(e) == [kind |-> "Exception", printable |-> TRUE, msg |-> e.msg]

\* the inner try: list the collections, keep the first ten; except Exception
\* writes the text of the error, and what is not caught, or is raised by
\* str(e) in the handler, leaves the block
HealthCollections(r, probe) ==
    IF ~probe.colls.raises
    THEN [raised |-> NoError,
          r |-> [r EXCEPT !.collections = Take(probe.colls.names, MaxCollections),
                          !.connection_status = "Connected",
                          !.database = [text |-> "Connected & Working", detail |-> <<>>]]]
    ELSE IF ~Caught(probe.colls.error) THEN [raised |-> probe.colls.error, r |-> r]
    ELSE IF ~probe.colls.error.printable
    THEN [raised |-> StrError(probe.colls.error), r |-> r]
    ELSE [raised |-> NoError,
          r |-> [r EXCEPT !.database =
                   [text |-> "Connected but error",
                    detail |-> Take(probe.colls.error.msg, MaxErrorText)]]]

\* the body of the outer try: the response so far, and the exception that
\* left the block, if one did. getattr(db, "name", None) turns an
\* AttributeError into None, and None or an empty name into "Unknown".
HealthBlock(dbv, probe) ==
    IF dbv = "none"
    THEN [raised |-> NoError,
          r |-> [HealthInitial EXCEPT
                   !.database = [text |-> "Available but not initialized", detail |-> <<>>]]]
    ELSE LET r1 == [HealthInitial EXCEPT
                      !.database = [text |-> "Available", detail |-> <<>>],
                      !.database_url = IF probe.url THEN "Set" ELSE "Not Set"]
         IN IF probe.name.raises /\ probe.name.error.kind # "AttributeError"
            THEN [raised |-> probe.name.error, r |-> r1]
            ELSE LET r2 == [r1 EXCEPT !.database_name =
                               IF probe.name.raises \/ probe.name.value = <<>>
                               THEN UnknownName
                               ELSE probe.name.value]
                 IN HealthCollections(r2, probe)

\* what leaves the handler uncaught: an Exception is the framework's 500, a
\* BaseException is no response of the application at all
Uncaught(e) ==
    IF e.kind = "BaseException"
    THEN [status |-> 0, body |-> [t |-> "raised", v |-> e.kind]]
    ELSE [status |-> 500, body |-> Null]

\* test_database(): except Exception turns what left the block into text,
\* unless str(e) itself raises
test_database(dbv, probe) ==
    LET b == HealthBlock(dbv, probe)
    IN IF b.raised = NoError THEN [status |-> 200, body |-> b.r]
       ELSE IF ~Caught(b.raised) THEN Uncaught(b.raised)
       ELSE IF ~b.raised.printable THEN Uncaught(StrError(b.raised))
       ELSE [status |-> 200,
             body |-> [b.r EXCEPT !.database =
                         [text |-> "Error", detail |-> Take(b.raised.msg, MaxErrorText)]]]

----------------------------------------------------------------------------
(* Inputs *)

\* identifiers the store may assign: a timestamp, then a counter
OidSeeds == {1, 10, 171}
OidOf(i) == <<101, 2, 171, 205, 0, 0, 0, 0, 0, 0, i \div 256, i % 256>>
OidSpace == {OidOf(i) : i \in OidSeeds}

ToUpper(s) ==
    [i \in 1..Len(s) |->
        IF s[i] \in Range(HexDigits)
        THEN UpperHex[CHOOSE k \in 1..16 : HexDigits[k] = s[i]]
        ELSE s[i]]

BadIds ==
    {<<"n", "o", "t", "-", "a", "-", "v", "a", "l", "i", "d", "-", "i", "d">>,
     SubSeq(OidStr(OidOf(1)), 1, 23),
     OidStr(OidOf(1)) \o <<"0">>,
     SubSeq(OidStr(OidOf(1)), 1, 23) \o <<"g">>,
     <<"6", " ">> \o SubSeq(OidStr(OidOf(1)), 2, 23)}

\* 24 characters that are not 24 hexadecimal digits and that bytes.fromhex
\* accepts: eight bytes with a blank, a tab or a vertical tab after each, and
\* 24 blanks
SpacedIds ==
    {<<"6", "5", " ", "0", "2", " ", "a", "b", " ", "c", "d", " ",
       "0", "0", VTab, "0", "0", "\t", "0", "0", " ", "0", "1", " ">>,
     [i \in 1..24 |-> " "]}

GetIds ==
    {OidStr(b) : b \in OidSpace} \cup {ToUpper(OidStr(OidOf(171)))}
        \cup BadIds \cup SpacedIds

Glass == <<"G", "l", "a", "s", "s">>

\* request bodies: a title and a year written as text; every field given,
\* with an id and an _id the schema does not declare; an empty title with an
\* explicit null; and eight bodies the schema rejects
P_glass == [title |-> JStr(Glass), year |-> JStr(<<" ", "2", "_", "0", "0", "0", ".", "0">>)]
P_full ==
    [title |-> JStr(<<"A">>), description |-> JStr(<<"d">>), year |-> JInt(1900),
     location |-> JStr(<<"l">>), cover_image |-> JStr(<<"c">>),
     gallery |-> JList(<<JStr(<<"u">>), JStr(<<"v">>)>>),
     _id |-> JStr(OidStr(OidOf(1))), id |-> JStr(OidStr(OidOf(10)))]
P_empty_title ==
    [title |-> JStr(<<>>), year |-> JInt(2100), gallery |-> Null]
P_1899 == [title |-> JStr(<<"C">>), year |-> JInt(1899)]
P_2101 == [title |-> JStr(<<"C">>), year |-> JInt(2101)]
P_no_title == [year |-> JInt(2000)]
P_null_title == [title |-> Null, year |-> JInt(2000)]
P_text_2101 == [title |-> JStr(<<"C">>), year |-> JStr(<<"+", "2", "1", "0", "1", "\n">>)]
P_bad_gallery_1900 ==
    [title |-> JStr(<<"G">>), year |-> JInt(1900), gallery |-> JList(<<JInt(1)>>)]
P_empty_word == [title |-> JStr(<<>>), year |-> JStr(<<"m", "m">>)]
P_frac_year == [title |-> JStr(<<"C">>), year |-> JStr(<<"2", "0", "0", "0", ".", "5">>)]

Payloads ==
    {P_glass, P_full, P_empty_title,
     P_1899, P_2101, P_no_title, P_null_title,
     P_text_2101, P_frac_year, P_bad_gallery_1900, P_empty_word}

ListLimits == {Absent} \cup {JInt(n) : n \in {0, 1}}
WideListLimits == {Absent} \cup {JInt(n) : n \in {-1, 0, 1, 99, 100, 101}}

\* what the health probe meets: the DATABASE_URL variable, db.name, and
\* db.list_collection_names(), each step either answering or raising
Msg(n) == [i \in 1..n |-> "x"]
Names(n) == [i \in 1..n |-> <<"c", HexDigits[i]>>]
Answers(v) == [raises |-> FALSE, error |-> NoError, value |-> v]
Raises(e) == [raises |-> TRUE, error |-> e, value |-> <<>>]
Listing(n) == [raises |-> FALSE, error |-> NoError, names |-> Names(n)]
ListingRaises(e) == [raises |-> TRUE, error |-> e, names |-> <<>>]

Messages == {Msg(0), Msg(MaxErrorText), Msg(MaxErrorText + 1)}

Errors ==
    [kind : {"Exception", "AttributeError"}, printable : {TRUE}, msg : Messages]
        \cup {[kind |-> "Exception", printable |-> FALSE, msg |-> Msg(1)],
              [kind |-> "BaseException", printable |-> TRUE, msg |-> Msg(1)]}

Probes ==
    [url : BOOLEAN,
     name : {Answers(<<"p">>), Answers(<<>>)} \cup {Raises(e) : e \in Errors},
     colls : {Listing(n) : n \in 0..MaxColls} \cup {ListingRaises(e) : e \in Errors}]

FewProbes ==
    {[url |-> TRUE, name |-> Answers(<<"p">>), colls |-> Listing(1)],
     [url |-> FALSE, name |-> Answers(<<"p">>), colls |-> ListingRaises([kind |-> "Exception", printable |-> TRUE, msg |-> Msg(1)])]}

----------------------------------------------------------------------------
(* The API runs *)

NoInput == [t |-> "none"]
NoResp == [op |-> "none", arg |-> Null, work_id |-> <<>>,
           status |-> 0, body |-> Null, calls |-> <<>>]

Response(op, arg, work_id, r) ==
    [op |-> op, arg |-> arg, work_id |-> work_id,
     status |-> r.status, body |-> r.body, calls |-> r.calls]

Init ==
    /\ db \in {"none", "up"}
    /\ store = <<>>
    /\ inflight = {}
    /\ resp = NoResp
    /\ created = {}
    /\ input = NoInput

\* the identifiers the store may assign to a new document: any one that no
\* document has yet
NewIds(docs) == {b \in OidSpace : Oid(b) \notin IdsOf(docs)}

\* POST /api/works, up to the insert: body validation (by the framework,
\* before the handler is called), the handle check, create_document
CreateWork(p) ==
    IF ~WorkBaseOk(p)
    THEN /\ resp' = Response("create", p, <<>>,
                             [status |-> 422, body |-> Null, calls |-> <<>>])
         /\ UNCHANGED <<db, store, inflight, created, input>>
    ELSE IF db = "none"
    THEN /\ resp' = Response("create", p, <<>>,
                             [status |-> 500, body |-> Null, calls |-> <<>>])
         /\ UNCHANGED <<db, store, inflight, created, input>>
    ELSE /\ Len(store) < MaxDocs
         /\ \E b \in NewIds(store) :
              LET ins == create_document(store, model_dump(p), b)
              IN /\ store' = ins.docs
                 /\ inflight' = inflight \cup {[payload |-> p, work_id |-> ins.id]}
         /\ UNCHANGED <<db, resp, created, input>>

\* a faulty second half: the re-fetch takes the first document of the
\* collection, whatever the identifier
CreateFetchFirst(l) ==
    /\ l \in inflight
    /\ LET inserted == IF store = <<>> THEN Null ELSE store[1]
           r == WorkOutResponse(serialize_doc(inserted), <<"insert_one", "find_one">>)
       IN /\ resp' = Response("create", l.payload, l.work_id, r)
          /\ created' = IF r.status = 200
                        THEN created \cup {[payload |-> l.payload, id |-> r.body["id"].v]}
                        ELSE created
    /\ inflight' = inflight \ {l}
    /\ UNCHANGED <<db, store, input>>

\* POST /api/works, from the insert on: the re-fetch by identifier, the
\* serialization, the response
CreateFetch(l) ==
    /\ l \in inflight
    /\ LET inserted == find_one(store, Oid(OidParse(l.work_id)))
           r == WorkOutResponse(serialize_doc(inserted), <<"insert_one", "find_one">>)
       IN /\ resp' = Response("create", l.payload, l.work_id, r)
          /\ created' = IF r.status = 200
                        THEN created \cup {[payload |-> l.payload, id |-> r.body["id"].v]}
                        ELSE created
    /\ inflight' = inflight \ {l}
    /\ UNCHANGED <<db, store, input>>

\* GET /api/works?limit=N
ListWorks(q) ==
    /\ IF db = "none"
       THEN resp' = Response("list", q, <<>>,
                             [status |-> 500, body |-> Null, calls |-> <<>>])
       ELSE \E docs \in get_documents(store, ListLimit(q)) :
               resp' = Response("list", q, <<>>, list_works_response(docs))
    /\ UNCHANGED <<db, store, inflight, created, input>>

\* GET /api/works/{work_id}
GetWork(id) ==
    /\ resp' = Response("get", JStr(id), <<>>, get_work(db, store, id))
    /\ UNCHANGED <<db, store, inflight, created, input>>

\* GET /test
TestDatabase(probe) ==
    /\ LET r == test_database(db, probe)
       IN resp' = Response("health", probe, <<>>,
                           [status |-> r.status, body |-> r.body, calls |-> <<>>])
    /\ UNCHANGED <<db, store, inflight, created, input>>

Next ==
    \/ \E p \in Payloads : CreateWork(p)
    \/ \E l \in inflight : CreateFetch(l)
    \/ \E q \in ListLimits : ListWorks(q)
    \/ \E id \in GetIds : GetWork(id)
    \/ \E probe \in FewProbes : TestDatabase(probe)

Spec == Init /\ [][Next]_vars

----------------------------------------------------------------------------
(* serialize_doc on its own: every sample document, one application *)

EmptyDoc == [k \in {} |-> Null]

\* the document with the fields of vals that are not Absent
DocOf(vals) == [k \in {f \in DOMAIN vals : vals[f] # Absent} |-> vals[k]]

SampleIds ==
    {Absent, Null} \cup {Oid(b) : b \in OidSpace}
        \cup {JInt(7), JInt(0), JInt(-120), JStr(<<"k", "1">>),
              JList(<<Oid(OidOf(1))>>),
              JList(<<JInt(1), JStr(<<"a">>), Null, JList(<<>>)>>),
              JList(<<JStr(<<"i", "t", "'", "s">>)>>),
              JList(<<JStr(<<"a", "\\", "b", "\n", "'", "\"", VTab, "U+0002",
                             "U+00E9", "U+200E", "U+E0001">>)>>)}
SampleOwners == {Absent, Null, JStr(<<"x">>), JInt(7), Oid(OidOf(10))}
SampleRefs ==
    {Absent,
     JList(<<>>),
     JList(<<Oid(OidOf(171))>>),
     JList(<<JStr(<<"u">>), Oid(OidOf(1)), JInt(3), Oid(OidOf(10))>>),
     JList(<<JList(<<Oid(OidOf(1))>>)>>)}
SampleOldIds == {Absent, JStr(<<"o", "l", "d">>)}

DocSamples ==
    {Null, EmptyDoc} \cup
    {DocOf([_id |-> i, owner |-> o, refs |-> r, id |-> x, title |-> JStr(Glass)]) :
        i \in SampleIds, o \in SampleOwners, r \in SampleRefs, x \in SampleOldIds}

InitSerialize ==
    /\ db = "up"
    /\ store = <<>>
    /\ inflight = {}
    /\ resp = NoResp
    /\ created = {}
    /\ input \in DocSamples

SerializeDoc ==
    /\ input # NoInput
    /\ resp' = Response("serialize", input, <<>>,
                        [status |-> 0, body |-> serialize_doc(input), calls |-> <<>>])
    /\ UNCHANGED <<db, store, inflight, created, input>>

NextSerialize == SerializeDoc

SpecSerialize == InitSerialize /\ [][NextSerialize]_vars

----------------------------------------------------------------------------
(* GET /test on its own: every probe outcome *)

InitHealth ==
    /\ db \in {"none", "up"}
    /\ store = <<>>
    /\ inflight = {}
    /\ resp = NoResp
    /\ created = {}
    /\ input \in Probes

NextHealth == TestDatabase(input)

SpecHealth == InitHealth /\ [][NextHealth]_vars

----------------------------------------------------------------------------
(* GET /api/works over collections of up to MaxPreload documents *)

PreloadSizes == 0..MaxPreload

Preload(n) ==
    [i \in 1..n |-> ("_id" :> Oid(OidOf(1000 + i))) @@ model_dump(P_glass)]

InitList ==
    /\ db = "up"
    /\ store \in {Preload(n) : n \in PreloadSizes}
    /\ inflight = {}
    /\ resp = NoResp
    /\ created = {}
    /\ input = NoInput

NextList == \E q \in WideListLimits : ListWorks(q)

SpecList == InitList /\ [][NextList]_vars

----------------------------------------------------------------------------
(* Properties *)

\* a request body with the schema's defaults filled in: the declared fields,
\* None where one is not given, an empty gallery
WithDefaults(P) ==
    [f \in WorkFields |->
        IF f \in DOMAIN P THEN P[f]
        ELSE IF f = "gallery" THEN JList(<<>>) ELSE Null]

\* the year a request body gives, read as the schema reads it: a text that
\* spells an integer is that integer
YearRead(y) ==
    IF y = JStr(<<" ", "2", "_", "0", "0", "0", ".", "0">>) THEN JInt(2000)
    ELSE IF y = JStr(<<"+", "2", "1", "0", "1", "\n">>) THEN JInt(2101)
    ELSE y

\* the Work a request body stands for: the defaults filled in, the year read
AsWork(P) == [WithDefaults(P) EXCEPT !["year"] = YearRead(@)]

\* r answers 200 with the Work created as c: its id, and its payload's fields
\* as they were sent
IsEcho(r, c) ==
    /\ r.status = 200
    /\ r.body["id"] = JStr(c.id)
    /\ \A f \in WorkFields : r.body[f] = WithDefaults(c.payload)[f]

\* r answers 200 with the Work created as c: its id, and its payload's
\* fields, the year read
IsRoundTrip(r, c) ==
    /\ r.status = 200
    /\ r.body["id"] = JStr(c.id)
    /\ \A f \in WorkFields : r.body[f] = AsWork(c.payload)[f]

\* C1 as stated: once create(P) has answered with id R.id, a get-by-id on
\* R.id answers 200 with a document whose id is R.id and whose domain fields
\* equal those of P with the defaults applied.
C1_Original ==
    \A c \in created : IsEcho(get_work(db, store, c.id), c)

\* C1, amended: once create(P) has answered with id R.id, a get-by-id on
\* R.id, after any further create / list / get / health requests, answers
\* 200 with a document whose id is R.id and whose domain fields are those of
\* P with the defaults applied, except that a year P gives as a text that
\* spells an integer comes back as that integer.
C1_RoundTrip ==
    /\ [](\A c \in created : IsRoundTrip(get_work(db, store, c.id), c))
    /\ [][(resp' # resp /\ resp'.op = "get")
            => \A c \in created : resp'.arg = JStr(c.id) => IsRoundTrip(resp', c)]_vars

C1_Witness ==
    /\ resp.op = "get"
    /\ resp.status = 200
    /\ Len(store) = 2
    /\ \E c \in created :
         /\ resp.arg = JStr(c.id)
         /\ c.payload = P_full
         /\ store[1]["_id"] = Oid(OidParse(c.id))
         /\ resp.body["gallery"] = JList(<<JStr(<<"u">>), JStr(<<"v">>)>>)
    /\ \E c \in created : c.payload = P_glass /\ store[2]["year"] = JInt(2000)
    /\ inflight = {}

\* a document as the store holds it: it has an _id
StoredLike(d) == d # Null /\ "_id" \in DOMAIN d /\ d["_id"] # Null

HoldsOid(x) == IsOid(x) \/ (IsList(x) /\ \E i \in 1..Len(x.v) : IsOid(x.v[i]))

\* the text Python shows for some identifiers that are not native ones
ShownAs(x) ==
    IF x = JInt(7) THEN <<"7">>
    ELSE IF x = JInt(0) THEN <<"0">>
    ELSE IF x = JInt(-120) THEN <<"-", "1", "2", "0">>
    ELSE IF x = JList(<<JInt(1), JStr(<<"a">>), Null, JList(<<>>)>>)
    THEN <<"[", "1", ",", " ", "'", "a", "'", ",", " ", "N", "o", "n", "e",
           ",", " ", "[", "]", "]">>
    ELSE IF x = JList(<<JStr(<<"i", "t", "'", "s">>)>>)
    THEN <<"[", "\"", "i", "t", "'", "s", "\"", "]">>
    ELSE IF x = JList(<<JStr(<<"a", "\\", "b", "\n", "'", "\"", VTab, "U+0002",
                               "U+00E9", "U+200E", "U+E0001">>)>>)
    THEN <<"[", "'", "a", "\\", "\\", "b", "\\", "n", "\\", "'", "\"",
           "\\", "x", "0", "b", "\\", "x", "0", "2", "U+00E9",
           "\\", "u", "2", "0", "0", "e",
           "\\", "U", "0", "0", "0", "e", "0", "0", "0", "1", "'", "]">>
    ELSE IF IsList(x)
    THEN <<"[", "O", "b", "j", "e", "c", "t", "I", "d", "(", "'">>
             \o OidStr(x.v[1].v) \o <<"'", ")", "]">>
    ELSE x.v

\* C2: for a stored document d, serialize_doc(d) has id = the canonical
\* string of d's native identifier (24 lower-case hex digits that parse back
\* to it; for an _id that is not a native identifier, the text str() shows
\* for it), has no _id, holds no native identifier as a field value or as an
\* element of a list field, and passes every other field through unchanged.
C2_Serialize ==
    (resp.op = "serialize" /\ StoredLike(resp.arg)) =>
        LET d == resp.arg
            o == resp.body
        IN /\ DOMAIN o = (DOMAIN d \ {"_id"}) \cup {"id"}
           /\ IsOid(d["_id"]) =>
                /\ o["id"] = JStr(OidStr(d["_id"].v))
                /\ Len(o["id"].v) = 24
                /\ \A i \in 1..24 : o["id"].v[i] \in Range(HexDigits)
                /\ OidParse(o["id"].v) = d["_id"].v
           /\ ~IsOid(d["_id"]) => o["id"] = JStr(ShownAs(d["_id"]))
           /\ \A k \in DOMAIN o : ~HoldsOid(o[k])
           /\ \A k \in DOMAIN d \ {"_id", "id"} :
                /\ ~HoldsOid(d[k]) => o[k] = d[k]
                /\ IsOid(d[k]) => o[k] = JStr(OidStr(d[k].v))
                /\ IsList(d[k]) =>
                     /\ IsList(o[k]) /\ Len(o[k].v) = Len(d[k].v)
                     /\ \A i \in 1..Len(d[k].v) :
                          o[k].v[i] = IF IsOid(d[k].v[i]) THEN JStr(OidStr(d[k].v[i].v))
                                      ELSE d[k].v[i]

C2_Witness ==
    /\ resp.op = "serialize"
    /\ StoredLike(resp.arg)
    /\ IsOid(resp.arg["_id"])
    /\ "owner" \in DOMAIN resp.arg /\ IsOid(resp.arg["owner"])
    /\ "refs" \in DOMAIN resp.arg /\ Len(resp.arg["refs"].v) = 4
    /\ "id" \in DOMAIN resp.arg
    /\ resp.body["id"] = JStr(OidStr(OidOf(171)))

\* the native identifier format on the wire: 24 hexadecimal digits
MatchesFormat(s) == Len(s) = 24 /\ \A i \in 1..Len(s) : s[i] \in HexChars

\* C3 as stated: every get-by-id with an identifier that does not match the
\* native identifier format is answered 400, with no store query (the answer
\* is read where a store handle exists, so that a 500 for the missing handle
\* is not counted against the claim).
C3_Original ==
    (db = "up" /\ resp.op = "get" /\ ~MatchesFormat(resp.arg.v)) =>
        (resp.status = 400 /\ resp.calls = <<>>)

\* C4: no two persisted Works share an id; each id is a native identifier
\* the store chose at insertion, and an id or _id in the request body has no
\* effect (a persisted Work holds the declared fields and the store's _id,
\* nothing else); a persisted Work never changes and is never removed.
C4_Identity ==
    /\ [](\A i, j \in 1..Len(store) : store[i]["_id"] = store[j]["_id"] => i = j)
    /\ [](\A i \in 1..Len(store) :
            /\ DOMAIN store[i] = WorkFields \cup {"_id"}
            /\ IsOid(store[i]["_id"])
            /\ store[i]["_id"].v \in OidSpace)
    /\ [](\A l \in inflight : \E i \in 1..Len(store) :
            /\ store[i]["_id"] = Oid(OidParse(l.work_id))
            /\ \A f \in WorkFields : store[i][f] = AsWork(l.payload)[f])
    /\ [][/\ Len(store') >= Len(store)
          /\ \A i \in 1..Len(store) : store'[i] = store[i]]_vars

C4_Witness ==
    /\ Len(store) = 2
    /\ \E c \in created :
         /\ "_id" \in DOMAIN c.payload
         /\ c.payload["_id"] # JStr(c.id)
         /\ c.payload["id"] # JStr(c.id)
         /\ store[2]["_id"] = Oid(OidParse(c.id))

\* the cap a list request asks for
RequestedCap(q) == IF q = Absent THEN 100 ELSE q.v

\* C5 as stated: for any integer limit N, 0 and negative values included, or
\* with the parameter omitted, the response has at most N items (100 when
\* omitted).
C5_Original ==
    (resp.op = "list" /\ resp.status = 200) =>
        Len(resp.body.v) <= RequestedCap(resp.arg)

\* C5, amended: for a limit N >= 1, or with the parameter omitted (N = 100),
\* the response has at most N items however many Works are persisted; for
\* any limit it has no more items than there are Works.
C5_ListCap ==
    (resp.op = "list" /\ resp.status = 200) =>
        /\ Len(resp.body.v) <= Len(store)
        /\ RequestedCap(resp.arg) >= 1 => Len(resp.body.v) <= RequestedCap(resp.arg)

C5_Witness ==
    /\ resp.op = "list"
    /\ resp.arg = Absent
    /\ Len(store) = 101
    /\ Len(resp.body.v) = 100

\* a year given as an integer, or as text that spells one
YearGiven(p) == "year" \in DOMAIN p /\ YearRead(p["year"]).t = "int"

YearOutside(p) ==
    /\ YearGiven(p)
    /\ (YearRead(p["year"]).v < 1900 \/ YearRead(p["year"]).v > 2100)

TitleAndBoundaryYear(p) ==
    /\ "title" \in DOMAIN p /\ IsStr(p["title"])
    /\ YearGiven(p)
    /\ YearRead(p["year"]).v \in {1900, 2100}

IsTextOrNone(x) == x = Null \/ IsStr(x)

\* the fields other than title and year are of their declared types
OtherFieldsTyped(p) ==
    /\ \A f \in {"description", "location", "cover_image"} \cap DOMAIN p :
         IsTextOrNone(p[f])
    /\ "gallery" \in DOMAIN p =>
         \/ p["gallery"] = Null
         \/ IsList(p["gallery"])
              /\ \A i \in 1..Len(p["gallery"].v) : IsStr(p["gallery"].v[i])

\* the year is absent, null or within 1900..2100
YearAcceptable(p) ==
    \/ "year" \notin DOMAIN p
    \/ p["year"] = Null
    \/ YearGiven(p) /\ ~YearOutside(p)

YearAtBoundary(p) == TitleAndBoundaryYear(p) /\ OtherFieldsTyped(p)

\* the Works a successful create response stands for
PersistedAs(work_id) == {i \in 1..Len(store) : store[i]["_id"] = Oid(OidParse(work_id))}

\* C6 as stated: a create with a year outside 1900..2100 is rejected with a
\* validation error and no insert; a create with a title and year 1900 or
\* 2100 succeeds.
C6_Original ==
    /\ (resp.op = "create" /\ YearOutside(resp.arg)) =>
          (resp.status = 422 /\ resp.calls = <<>>)
    /\ (resp.op = "create" /\ TitleAndBoundaryYear(resp.arg)) => resp.status = 200

\* C6, amended: a create with a year outside 1900..2100 is rejected with a
\* validation error, and the rejection persists nothing and attempts no
\* insert; a create with a title, year 1900 or 2100 and every other field of
\* its declared type succeeds and has persisted exactly one new Work when
\* the store handle exists, and is answered 500, persisting nothing, when it
\* does not.
C6_YearBounds ==
    /\ []((resp.op = "create" /\ YearOutside(resp.arg)) =>
            (resp.status = 422 /\ resp.calls = <<>>))
    /\ []((resp.op = "create" /\ YearAtBoundary(resp.arg)) =>
            /\ resp.status = IF db = "up" THEN 200 ELSE 500
            /\ resp.status = 200 =>
                 /\ Cardinality(PersistedAs(resp.work_id)) = 1
                 /\ \A i \in PersistedAs(resp.work_id) :
                      store[i]["year"] = YearRead(resp.arg["year"]))
    /\ [][(resp' # resp /\ resp'.op = "create" /\ resp'.status # 200)
            => (store' = store /\ inflight' = inflight)]_vars
    /\ [][store' # store => Len(store') = Len(store) + 1]_vars

C6_Witness ==
    /\ resp.op = "create"
    /\ resp.status = 422
    /\ YearOutside(resp.arg)
    /\ Len(store) = 2
    /\ store[1]["year"] = JInt(2100)
    /\ store[2]["year"] = JInt(1900)
    /\ inflight = {}

TitleMissing(p) == "title" \notin DOMAIN p \/ p["title"] = Null
TitleEmpty(p) == "title" \in DOMAIN p /\ p["title"] = JStr(<<>>)

\* C7 as stated: every persisted Work has a present, non-empty title, and a
\* create whose title is missing or is the empty string is rejected with a
\* validation error (the answer is read where a store handle exists, so that
\* a 500 for the missing handle is not counted against the claim).
C7_Original ==
    /\ \A i \in 1..Len(store) :
         /\ "title" \in DOMAIN store[i]
         /\ IsStr(store[i]["title"])
         /\ store[i]["title"].v # <<>>
    /\ (db = "up" /\ resp.op = "create"
           /\ (TitleMissing(resp.arg) \/ TitleEmpty(resp.arg))) =>
          (resp.status = 422 /\ resp.calls = <<>>)

\* C7, amended: every persisted Work has a title that is present text, which
\* may be empty; a create whose title is missing (or null) is rejected with a
\* validation error and persists nothing; a create whose title is the empty
\* string is not rejected for it: with a body that is valid otherwise (the
\* year absent, null or in range, every other field of its declared type) it
\* is answered as any other create (200 when the store handle exists, 500
\* when it does not).
C7_Title ==
    /\ [](\A i \in 1..Len(store) :
            "title" \in DOMAIN store[i] /\ IsStr(store[i]["title"]))
    /\ []((resp.op = "create" /\ TitleMissing(resp.arg)) =>
            (resp.status = 422 /\ resp.calls = <<>>))
    /\ []((resp.op = "create" /\ TitleEmpty(resp.arg)
              /\ YearAcceptable(resp.arg) /\ OtherFieldsTyped(resp.arg)) =>
            resp.status = IF db = "up" THEN 200 ELSE 500)
    /\ [][(resp' # resp /\ resp'.op = "create" /\ resp'.status = 422)
            => (store' = store /\ inflight' = inflight)]_vars

C7_Witness ==
    /\ resp.op = "create"
    /\ resp.status = 422
    /\ TitleMissing(resp.arg)
    /\ Len(store) >= 1
    /\ store[1]["title"] = JStr(<<>>)
    /\ \E c \in created : TitleEmpty(c.payload)

NoWorkHas(id) == \A i \in 1..Len(store) : store[i]["_id"] # Oid(OidParse(id))

\* C8 as stated: a get-by-id with a well-formed identifier that no persisted
\* Work has is answered 404.
C8_Original ==
    (resp.op = "get" /\ MatchesFormat(resp.arg.v) /\ NoWorkHas(resp.arg.v)) =>
        resp.status = 404

\* C8, amended: a get-by-id with a well-formed identifier that no persisted
\* Work has is answered 404 when the store handle exists and 500 when it
\* does not; it leaves the persisted Works unchanged; and get-by-id answers
\* 200 only when a persisted Work has that id.
C8_NotFound ==
    /\ []((resp.op = "get" /\ MatchesFormat(resp.arg.v) /\ NoWorkHas(resp.arg.v)) =>
            resp.status = IF db = "up" THEN 404 ELSE 500)
    /\ []((resp.op = "get" /\ resp.status = 200) =>
            (MatchesFormat(resp.arg.v) /\ ~NoWorkHas(resp.arg.v)))
    /\ [][(resp' # resp /\ resp'.op = "get") => store' = store]_vars

C8_Witness ==
    /\ resp.op = "get"
    /\ resp.status = 404
    /\ resp.calls = <<"find_one">>
    /\ Len(store) = 2
    /\ MatchesFormat(resp.arg.v)
    /\ NoWorkHas(resp.arg.v)

\* what the probe raises, where it raises, is an error: an Exception, not a
\* BaseException such as KeyboardInterrupt
ProbeRaisesErrorsOnly(probe) ==
    /\ probe.name.raises => Caught(probe.name.error)
    /\ probe.colls.raises => Caught(probe.colls.error)

\* C9 as stated: GET /test never fails: with no handle, with a handle whose
\* probe answers, and with a handle whose probe raises an error at any step,
\* it returns the diagnostic object rather than an error, and the collections
\* list never has more than 10 names.
C9_Original ==
    (resp.op = "health" /\ ProbeRaisesErrorsOnly(resp.arg)) =>
        /\ resp.status = 200
        /\ DOMAIN resp.body = DOMAIN HealthInitial
        /\ resp.body.backend = "Running"
        /\ Len(resp.body.collections) <= 10

\* C10: create is an insert, then a re-fetch by the identifier the insert
\* returned; in every interleaving of create, list and get requests the
\* re-fetch finds a document, and the response is the serialization of the
\* document that same request inserted: its id is the one that request's
\* insert returned, its fields are the stored ones, and it is not the input
\* echoed back.
C10_CreateRefetch ==
    /\ \A l \in inflight :
         LET d == find_one(store, Oid(OidParse(l.work_id)))
         IN /\ d # Null
            /\ \A f \in WorkFields : d[f] = AsWork(l.payload)[f]
    /\ \A l1, l2 \in inflight : l1.work_id = l2.work_id => l1 = l2
    /\ \A l \in inflight, c \in created : l.work_id # c.id
    /\ (resp.op = "create" /\ resp.calls # <<>>) =>
         /\ resp.calls = <<"insert_one", "find_one">>
         /\ resp.status = 200
         /\ resp.body["id"] = JStr(resp.work_id)
         /\ DOMAIN resp.body = WorkFields \cup {"id"}
         /\ \A f \in WorkFields : resp.body[f] = AsWork(resp.arg)[f]
         /\ \E i \in 1..Len(store) :
              /\ OidStr(store[i]["_id"].v) = resp.work_id
              /\ \A f \in WorkFields : resp.body[f] = store[i][f]

C10_Witness ==
    /\ resp.op = "create"
    /\ resp.status = 200
    /\ Len(store) = 2
    /\ resp.work_id = OidStr(store[1]["_id"].v)
    /\ \E l \in inflight : l.work_id = OidStr(store[2]["_id"].v)
    /\ "id" \in DOMAIN resp.arg
    /\ resp.body["id"] # resp.arg["id"]

====
